---- MODULE Spec2Model ----
(***************************************************************************)
(* Agent Factory: the orchestration of agent_factory/factory.py            *)
(* (_call_anthropic, _render_templates, _write_agent_folder,               *)
(* _write_run_script, create_agent), the CLI boundary of create_agent.py   *)
(* and the run() loop of the generated run_agent.py.                       *)
(*                                                                         *)
(* Text is a sequence of one-character strings, so that strip(), the two   *)
(* fence regular expressions, json.loads and json.dumps are computed       *)
(* character by character as the Python code computes them.                *)
(***************************************************************************)
EXTENDS Integers, Sequences, FiniteSets, TLC

(***************************************************************************)
(* Text helpers                                                            *)
(***************************************************************************)

\* str.isspace() / the regular expression class \s, on the characters used.
IsSpace(c) == c \in {" ", "\n", "\t", "\r", "\f"}

\* The WHITESPACE pattern of json.decoder: [ \t\n\r]*
IsJsonWs(c) == c \in {" ", "\n", "\t", "\r"}

Drop(t, n) == SubSeq(t, n + 1, Len(t))

Take(t, n) == SubSeq(t, 1, n)

StartsWithAt(t, i, pre) ==
    /\ i + Len(pre) - 1 <= Len(t)
    /\ \A k \in 1..Len(pre) : t[i + k - 1] = pre[k]

StartsWith(t, pre) == StartsWithAt(t, 1, pre)

EndsWith(t, suf) ==
    /\ Len(suf) <= Len(t)
    /\ StartsWithAt(t, Len(t) - Len(suf) + 1, suf)

Contains(t, sub) == \E i \in 1..(Len(t) + 1) : StartsWithAt(t, i, sub)

\* First index >= i whose character is not matched by \s (Len(t)+1 if none).
RECURSIVE SkipSpace(_, _)
SkipSpace(t, i) ==
    IF i <= Len(t) /\ IsSpace(t[i]) THEN SkipSpace(t, i + 1) ELSE i

RECURSIVE SkipJsonWs(_, _)
SkipJsonWs(t, i) ==
    IF i <= Len(t) /\ IsJsonWs(t[i]) THEN SkipJsonWs(t, i + 1) ELSE i

\* str.lstrip() / str.rstrip() / str.strip() with no argument.
lstrip(t) == Drop(t, SkipSpace(t, 1) - 1)

RECURSIVE rstrip(_)
rstrip(t) ==
    IF Len(t) > 0 /\ IsSpace(t[Len(t)]) THEN rstrip(Take(t, Len(t) - 1)) ELSE t

strip(t) == rstrip(lstrip(t))

\* The backquote character.  A TLA+ string literal cannot hold a backquote,
\* so this one character is written as a token of its own.
Tick == "<bq>"

Fence == <<Tick, Tick, Tick>>

JsonTag == <<"j", "s", "o", "n">>

(***************************************************************************)
(* The first re.sub of _call_anthropic: an opening fence, an optional json *)
(* tag and a run of white space.  The pattern is anchored at the start of  *)
(* the text (no MULTILINE), the tag and the white space are greedy, and    *)
(* the match is replaced by the empty string.                              *)
(***************************************************************************)
SubLeadingFenceNoTag(t) ==
    IF StartsWith(t, Fence) THEN Drop(t, SkipSpace(t, 4) - 1) ELSE t

SubLeadingFence(t) ==
    IF StartsWith(t, Fence)
    THEN LET afterTag == IF StartsWithAt(t, 4, JsonTag) THEN 8 ELSE 4
         IN  Drop(t, SkipSpace(t, afterTag) - 1)
    ELSE t

(***************************************************************************)
(* The second re.sub: a run of white space, a closing fence and the end    *)
(* anchor, which matches at the end of the text and just before a newline  *)
(* that ends it.  The match starts at the leftmost position from which     *)
(* only white space precedes the closing fence.                            *)
(***************************************************************************)
RECURSIVE SpaceRunStart(_, _)
SpaceRunStart(t, j) ==
    IF j > 1 /\ IsSpace(t[j - 1]) THEN SpaceRunStart(t, j - 1) ELSE j

SubTrailingFence(t) ==
    IF EndsWith(t, Fence)
    THEN Take(t, SpaceRunStart(t, Len(t) - 2) - 1)
    ELSE IF EndsWith(t, Fence \o <<"\n">>)
         THEN Take(t, SpaceRunStart(t, Len(t) - 3) - 1) \o <<"\n">>
         ELSE t

(***************************************************************************)
(* Python values, as json.loads builds them.  Every value is a record      *)
(* [t, v]: t is the Python type and v a sequence (the characters of a      *)
(* str, the digits of an int, the literal of a bool, the items of a list,  *)
(* the <<key, value>> items of a dict in insertion order).                 *)
(***************************************************************************)
None == [t |-> "NoneType", v |-> <<>>]

PyStr(cs) == [t |-> "str", v |-> cs]

PyInt(ds) == [t |-> "int", v |-> ds]

PyBool(lit) == [t |-> "bool", v |-> lit]

PyList(items) == [t |-> "list", v |-> items]

PyDict(items) == [t |-> "dict", v |-> items]

TrueLit == <<"t", "r", "u", "e">>

FalseLit == <<"f", "a", "l", "s", "e">>

NullLit == <<"n", "u", "l", "l">>

\* bool(x) for the values above: None, "", 0, False, [] and {} are falsy.
Truthy(x) ==
    CASE x.t = "NoneType" -> FALSE
      [] x.t = "int" -> x.v # <<"0">>
      [] x.t = "bool" -> x.v = TrueLit
      [] OTHER -> Len(x.v) > 0

\* d[k] = val on a dict's items: an existing key keeps its place.
RECURSIVE DictSet(_, _, _)
DictSet(items, k, val) ==
    IF items = <<>> THEN << <<k, val>> >>
    ELSE IF Head(items)[1] = k THEN << <<k, val>> >> \o Tail(items)
    ELSE <<Head(items)>> \o DictSet(Tail(items), k, val)

DictHas(d, k) == \E i \in 1..Len(d.v) : d.v[i][1] = k

\* d.get(k, default)
DictGet(d, k, default) ==
    IF DictHas(d, k)
    THEN d.v[CHOOSE i \in 1..Len(d.v) : d.v[i][1] = k][2]
    ELSE default

(***************************************************************************)
(* json.loads, strict, on the part of the JSON grammar the responses use:  *)
(* objects, arrays, strings with the two-character escapes    *)
(* for quote, backslash, slash, n, t, r and f, the integers                 *)
(* 0|[1-9][0-9]* and the literals null, true, false.  A scan returns       *)
(* [ok, val, pos]: pos is the index after the value.                       *)
(***************************************************************************)
Digits == {"0", "1", "2", "3", "4", "5", "6", "7", "8", "9"}

IsControl(c) == c \in {"\n", "\t", "\r", "\f"}

Ok(val, pos) == [ok |-> TRUE, val |-> val, pos |-> pos]

Fail(pos) == [ok |-> FALSE, val |-> None, pos |-> pos]

\* The character a backslash escape stands for; "" when it is no escape.
Unescape(c) ==
    CASE c = "\"" -> "\""
      [] c = "\\" -> "\\"
      [] c = "/" -> "/"
      [] c = "n" -> "\n"
      [] c = "t" -> "\t"
      [] c = "r" -> "\r"
      [] c = "f" -> "\f"
      [] OTHER -> ""

Min(S) == CHOOSE x \in S : \A y \in S : x <= y

Max(S) == CHOOSE x \in S : \A y \in S : x >= y

\* The backslashes that stand directly before index j, from index i on.
BackslashRun(t, i, j) ==
    j - 1 - Max({i - 1} \cup {k \in i..(j - 1) : t[k] # "\\"})

\* The characters of t[i..c-1] with each escape replaced by its character.
RECURSIVE Decode(_, _, _)
Decode(t, i, c) ==
    LET bs == {k \in i..(c - 1) : t[k] = "\\"}
    IN  IF bs = {} THEN SubSeq(t, i, c - 1)
        ELSE SubSeq(t, i, Min(bs) - 1) \o <<Unescape(t[Min(bs) + 1])>>
             \o Decode(t, Min(bs) + 2, c)

\* py_scanstring from the character after the opening quote: the string
\* ends at the first quote that no backslash escapes; a control character
\* and an unknown escape are errors.
ScanString(t, i) ==
    LET closing == {j \in i..Len(t) :
                       t[j] = "\"" /\ BackslashRun(t, i, j) % 2 = 0}
    IN  IF closing = {} THEN Fail(Len(t) + 1)
        ELSE LET c == Min(closing)
             IN  IF \E j \in i..(c - 1) :
                        \/ IsControl(t[j])
                        \/ /\ t[j] # "\\"
                           /\ BackslashRun(t, i, j) % 2 = 1
                           /\ Unescape(t[j]) = ""
                 THEN Fail(i)
                 ELSE Ok(Decode(t, i, c), c + 1)

RECURSIVE DigitRunEnd(_, _)
DigitRunEnd(t, i) ==
    IF i <= Len(t) /\ t[i] \in Digits THEN DigitRunEnd(t, i + 1) ELSE i

ScanNumber(t, i) ==
    LET e == IF t[i] = "0" THEN i + 1 ELSE DigitRunEnd(t, i)
    IN  Ok(PyInt(SubSeq(t, i, e - 1)), e)

RECURSIVE ScanValue(_, _), ScanMembers(_, _, _), ScanItems(_, _, _)

\* scan_once
ScanValue(t, i) ==
    IF i > Len(t) THEN Fail(i)
    ELSE IF t[i] = "\""
         THEN LET s == ScanString(t, i + 1)
              IN  IF s.ok THEN Ok(PyStr(s.val), s.pos) ELSE Fail(s.pos)
    ELSE IF t[i] = "{"
         THEN LET j == SkipJsonWs(t, i + 1)
              IN  IF j <= Len(t) /\ t[j] = "}" THEN Ok(PyDict(<<>>), j + 1)
                  ELSE ScanMembers(t, j, <<>>)
    ELSE IF t[i] = "["
         THEN LET j == SkipJsonWs(t, i + 1)
              IN  IF j <= Len(t) /\ t[j] = "]" THEN Ok(PyList(<<>>), j + 1)
                  ELSE ScanItems(t, j, <<>>)
    ELSE IF StartsWithAt(t, i, NullLit) THEN Ok(None, i + 4)
    ELSE IF StartsWithAt(t, i, TrueLit) THEN Ok(PyBool(TrueLit), i + 4)
    ELSE IF StartsWithAt(t, i, FalseLit) THEN Ok(PyBool(FalseLit), i + 5)
    ELSE IF t[i] \in Digits THEN ScanNumber(t, i)
    ELSE Fail(i)

\* JSONObject from the opening quote of a key.
ScanMembers(t, i, acc) ==
    IF i > Len(t) \/ t[i] # "\"" THEN Fail(i)
    ELSE LET k == ScanString(t, i + 1)
             c == SkipJsonWs(t, k.pos)
         IN  IF ~k.ok THEN Fail(k.pos)
             ELSE IF c > Len(t) \/ t[c] # ":" THEN Fail(c)
             ELSE LET x == ScanValue(t, SkipJsonWs(t, c + 1))
                      e == SkipJsonWs(t, x.pos)
                  IN  IF ~x.ok THEN Fail(x.pos)
                      ELSE IF e > Len(t) THEN Fail(e)
                      ELSE IF t[e] = "}"
                           THEN Ok(PyDict(DictSet(acc, k.val, x.val)), e + 1)
                      ELSE IF t[e] = ","
                           THEN ScanMembers(t, SkipJsonWs(t, e + 1),
                                            DictSet(acc, k.val, x.val))
                      ELSE Fail(e)

\* JSONArray from the first character of an item.
ScanItems(t, i, acc) ==
    LET x == ScanValue(t, i)
        e == SkipJsonWs(t, x.pos)
    IN  IF ~x.ok THEN Fail(x.pos)
        ELSE IF e > Len(t) THEN Fail(e)
        ELSE IF t[e] = "]" THEN Ok(PyList(Append(acc, x.val)), e + 1)
        ELSE IF t[e] = ","
             THEN ScanItems(t, SkipJsonWs(t, e + 1), Append(acc, x.val))
        ELSE Fail(e)

\* JSONDecoder.decode: white space, one value, white space, the end of the
\* text.  ok = FALSE is json.JSONDecodeError.
json_loads(t) ==
    LET x == ScanValue(t, SkipJsonWs(t, 1))
    IN  IF x.ok /\ SkipJsonWs(t, x.pos) = Len(t) + 1 THEN x ELSE Fail(x.pos)

(***************************************************************************)
(* json.dumps(obj, indent=2, ensure_ascii=False)                           *)
(***************************************************************************)
\* encode_basestring: the escape of one character of a str.
Escape(c) ==
    CASE c = "\"" -> <<"\\", "\"">>
      [] c = "\\" -> <<"\\", "\\">>
      [] c = "\n" -> <<"\\", "n">>
      [] c = "\t" -> <<"\\", "t">>
      [] c = "\r" -> <<"\\", "r">>
      [] c = "\f" -> <<"\\", "f">>
      [] OTHER -> <<c>>

\* The escapes of a text, joined (by halves, to keep the nesting shallow).
RECURSIVE EscapeAll(_)
EscapeAll(cs) ==
    IF cs = <<>> THEN <<>>
    ELSE IF Len(cs) = 1 THEN Escape(cs[1])
    ELSE EscapeAll(Take(cs, Len(cs) \div 2))
         \o EscapeAll(Drop(cs, Len(cs) \div 2))

Quoted(cs) == <<"\"">> \o EscapeAll(cs) \o <<"\"">>

RECURSIVE Indent(_)
Indent(level) ==
    IF level = 0 THEN <<>> ELSE <<" ", " ">> \o Indent(level - 1)

RECURSIVE Dumps(_, _), DumpItems(_, _, _)

\* _make_iterencode at the given nesting level.
Dumps(x, level) ==
    CASE x.t = "NoneType" -> NullLit
      [] x.t = "str" -> Quoted(x.v)
      [] x.t \in {"list", "dict"} ->
            IF x.v = <<>>
            THEN IF x.t = "list" THEN <<"[", "]">> ELSE <<"{", "}">>
            ELSE <<IF x.t = "list" THEN "[" ELSE "{">>
                 \o DumpItems(x.v, x.t = "dict", level + 1)
                 \o <<"\n">> \o Indent(level)
                 \o <<IF x.t = "list" THEN "]" ELSE "}">>
      [] OTHER -> x.v

\* The items of a non-empty list or dict, each on a line of its own.
DumpItems(items, keyed, level) ==
    IF items = <<>> THEN <<>>
    ELSE <<"\n">> \o Indent(level)
         \o (IF keyed
             THEN Quoted(Head(items)[1]) \o <<":", " ">>
                  \o Dumps(Head(items)[2], level)
             ELSE Dumps(Head(items), level))
         \o (IF Len(items) > 1 THEN <<",">> ELSE <<>>)
         \o DumpItems(Tail(items), keyed, level)

json_dumps(x) == Dumps(x, 0)

(***************************************************************************)
(* Constants of the program                                                *)
(***************************************************************************)
\* Characters outside ASCII, each written as a token of its own.
ATilde == "<A-tilde>"

Currency == "<currency-sign>"

CrossMark == "<cross-mark>"

\* The keys create_agent reads and writes.
K_agent_name ==
    <<"a", "g", "e", "n", "t", "_", "n", "a", "m", "e">>

K_instructions ==
    <<"i", "n", "s", "t", "r", "u", "c", "t", "i", "o", "n", "s">>

K_display_name ==
    <<"d", "i", "s", "p", "l", "a", "y", "_", "n", "a", "m", "e">>

K_generated_at ==
    <<"g", "e", "n", "e", "r", "a", "t", "e", "d", "_", "a", "t">>

\* The head of the ValueError message of _call_anthropic.
InvalidJsonHead ==
    <<"A", "n", "t", "h", "r", "o", "p", "i", "c", " ", "r", "e", "t",
      "u", "r", "n", "e", "d", " ", "i", "n", "v", "a", "l", "i", "d",
      " ", "J", "S", "O", "N", ".", "\n", "\n", "-", "-", "-", " ", "r",
      "a", "w", " ", "r", "e", "s", "p", "o", "n", "s", "e", " ", "-",
      "-", "-", "\n">>

\* The separator create_agent puts between the generated instruction text
\* and the user's instructions.
InstructionSeparator ==
    <<"\n", "\n", "-", "-", "-", "\n", "\n", "#", "#", " ", "A", "n",
      "v">>
    \o <<ATilde, Currency>> \o
    <<"n", "d", "a", "r", "e", "n", "s", " ", "i", "n", "s", "t", "r",
      "u", "k", "t", "i", "o", "n", "e", "r", "\n", "\n">>

\* The head of the line main() prints to stderr.
ErrorHead ==
    <<CrossMark>> \o
    <<" ", " ", "E", "r", "r", "o", "r", ":", " ">>

GenerationDataName ==
    <<"g", "e", "n", "e", "r", "a", "t", "i", "o", "n", "_", "d", "a",
      "t", "a", ".", "j", "s", "o", "n">>

RunScriptName ==
    <<"r", "u", "n", "_", "a", "g", "e", "n", "t", ".", "p", "y">>

\* The files of TEMPLATES_DIR that glob("*.j2") yields.
TemplateFiles ==
    { <<"i", "n", "s", "t", "r", "u", "c", "t", "i", "o", "n", "s", ".", "m", "d", ".", "j", "2">>,
      <<"m", "e", "t", "a", "d", "a", "t", "a", ".", "j", "s", "o", "n", ".", "j", "2">> }

\* AGENTS_DIR, as the components of an absolute path.
AGENTS_DIR ==
    << <<"p", "k", "g">>,
       <<"a", "g", "e", "n", "t", "s">> >>

(***************************************************************************)
(* Paths and the file system.  A path is the sequence of its components    *)
(* from the root, each a text; the file system is the set of directories   *)
(* and the contents of the regular files.                                  *)
(***************************************************************************)
\* The components of a text between its slashes.
RECURSIVE SplitSlash(_, _)
SplitSlash(cs, cur) ==
    IF cs = <<>> THEN <<cur>>
    ELSE IF Head(cs) = "/" THEN <<cur>> \o SplitSlash(Tail(cs), <<>>)
    ELSE SplitSlash(Tail(cs), Append(cur, Head(cs)))

Dot == <<".">>

DotDot == <<".", ".">>

\* pathlib drops the empty and the "." components of a path it parses.
RECURSIVE DropEmpty(_)
DropEmpty(parts) ==
    IF parts = <<>> THEN <<>>
    ELSE IF Head(parts) \in {<<>>, Dot} THEN DropEmpty(Tail(parts))
    ELSE <<Head(parts)>> \o DropEmpty(Tail(parts))

\* base / name: an absolute name replaces the base.
PathJoin(base, name) ==
    IF name # <<>> /\ Head(name) = "/"
    THEN DropEmpty(SplitSlash(name, <<>>))
    ELSE base \o DropEmpty(SplitSlash(name, <<>>))

\* The directory the operating system reaches by a lexical path: ".." is
\* the parent, and the parent of the root is the root.
RECURSIVE Resolve(_, _)
Resolve(parts, acc) ==
    IF parts = <<>> THEN acc
    ELSE IF Head(parts) = DotDot
         THEN Resolve(Tail(parts),
                      IF acc = <<>> THEN acc ELSE Take(acc, Len(acc) - 1))
    ELSE Resolve(Tail(parts), Append(acc, Head(parts)))

\* Every directory that mkdir(parents=True) of a lexical path leaves
\* present: the path and each of its lexical parents, resolved.
LexicalParents(parts) == {Resolve(Take(parts, k), <<>>) : k \in 0..Len(parts)}

\* Path.stem: the name up to its last dot, when that dot is neither the
\* first nor the last character.
RECURSIVE LastDot(_, _)
LastDot(cs, i) ==
    IF i = 0 THEN 0 ELSE IF cs[i] = "." THEN i ELSE LastDot(cs, i - 1)

Stem(name) ==
    LET d == LastDot(name, Len(name))
    IN  IF 1 < d /\ d < Len(name) THEN Take(name, d - 1) ELSE name

IsPrefix(a, b) == Len(a) <= Len(b) /\ Take(b, Len(a)) = a

\* The names of the entries of a directory (Path.iterdir).
Children(fs, ds, dir) ==
    {pth[Len(pth)] : pth \in {q \in (DOMAIN fs) \cup ds :
                                Len(q) = Len(dir) + 1 /\ IsPrefix(dir, q)}}

\* Path.write_text on a file system fs (path -> content): the file is
\* created, or truncated and rewritten when it exists.
WriteTextKeepExisting(fs, pth, content) ==
    IF pth \in DOMAIN fs THEN fs ELSE (pth :> content) @@ fs

WriteText(fs, pth, content) ==
    (pth :> content) @@ [q \in (DOMAIN fs) \ {pth} |-> fs[q]]

(***************************************************************************)
(* State                                                                   *)
(***************************************************************************)
\* The invocations that may run side by side.
Procs == {1, 2}

VARIABLES
    pc,            \* per invocation: the step it is about to take
    caller,        \* "cli" (main), "lib" (create_agent called as a library)
                   \* or "writer" (_write_agent_folder called directly)
    instructions,  \* the instructions argument: None or a str
    response,      \* message.content[0].text as the service returned it
    core,          \* the text the service wrapped in white space and fences
    raw_text,      \* the local raw_text of _call_anthropic
    agent_data,    \* the parsed record
    agent_name,    \* agent_data["agent_name"]
    rendered,      \* output file name -> rendered content
    written,       \* the rendered files this call has written so far
    agent_dir,     \* base / agent_name, as a lexical path
    exc,           \* the exception in flight, or NoExc
    result,        \* the summary create_agent returns
    exit_code,     \* the exit status of the CLI process (-1: still running)
    stderr,        \* the lines the CLI printed to standard error
    calls,         \* completion calls made by this invocation
    trace,         \* the steps this invocation has taken, in order
    wcalls,        \* calls of _write_agent_folder by this invocation
    files,         \* file system: path -> content of each regular file
    dirs,          \* file system: the directories
    xbit,          \* file system: the files with the owner-execute bit
    clock,         \* datetime.now(), counted in readings
    fs0,           \* the file system before any invocation started
    wlog,          \* every write_text so far: <<invocation, path>>
    finished,      \* the invocations that returned, in order
    snap,          \* the files as they were when the previous writer call returned
    rpc,           \* run(): position in the loop of run_agent.py
    user_input,    \* run(): the argument, None or a str
    prompts,       \* run(): the queued prompts, or NoPrompts for None
    prompt,        \* run(): the prompt of the current iteration
    conversation,  \* run(): the conversation history
    stdin,         \* run(): the lines input() will still return
    sent,          \* run(): the prompts sent to the completion service
    reads          \* run(): calls of input() so far

procVars == <<pc, caller, instructions, response, core, raw_text, agent_data,
              agent_name, rendered, written, agent_dir, exc, result,
              exit_code, stderr, calls, trace, wcalls>>

fsVars == <<files, dirs, xbit, clock, fs0, wlog, finished, snap>>

runVars == <<rpc, user_input, prompts, prompt, conversation, stdin, sent, reads>>

vars == <<procVars, fsVars, runVars>>

NoExc == [type |-> "none", msg |-> <<>>, step |-> "none"]

NoResult == [agent_name |-> None, display_name |-> None, agent_dir |-> <<>>,
             files_written |-> {}, data |-> None]

EmptyFiles == [q \in {} |-> None]

\* The contents of files.
TextFile(text) == [kind |-> "text", text |-> text]

RenderedFile(template, data, at) ==
    [kind |-> "rendered", template |-> template, data |-> data,
     generated_at |-> at]

ScriptFile(name) == [kind |-> "script", agent_name |-> name]

(***************************************************************************)
(* Inputs: the completion responses, instructions and file systems the     *)
(* specifications draw from.                                               *)
(***************************************************************************)
\* a complete record
R_plain ==
    <<"{", "\"", "a", "g", "e", "n", "t", "_", "n", "a", "m", "e", "\"",
      ":", "\"", "o", "p", "s", "\"", ",", "\"", "d", "i", "s", "p", "l",
      "a", "y", "_", "n", "a", "m", "e", "\"", ":", "\"", "O", "p", "s",
      "\"", ",", "\"", "i", "n", "s", "t", "r", "u", "c", "t", "i", "o",
      "n", "s", "\"", ":", "\"", "H", "i", "\"", "}">>

\* instruction text that ends in white space
R_trailing_space ==
    <<"{", "\"", "a", "g", "e", "n", "t", "_", "n", "a", "m", "e", "\"",
      ":", "\"", "o", "p", "s", "\"", ",", "\"", "i", "n", "s", "t", "r",
      "u", "c", "t", "i", "o", "n", "s", "\"", ":", "\"", "H", "i", " ",
      "\\", "n", "\"", "}">>

\* instructions: null
R_null_instructions ==
    <<"{", "\"", "a", "g", "e", "n", "t", "_", "n", "a", "m", "e", "\"",
      ":", "\"", "o", "p", "s", "\"", ",", "\"", "i", "n", "s", "t", "r",
      "u", "c", "t", "i", "o", "n", "s", "\"", ":", "n", "u", "l", "l", "}">>

\* instructions that are no text
R_int_instructions ==
    <<"{", "\"", "a", "g", "e", "n", "t", "_", "n", "a", "m", "e", "\"",
      ":", "\"", "o", "p", "s", "\"", ",", "\"", "i", "n", "s", "t", "r",
      "u", "c", "t", "i", "o", "n", "s", "\"", ":", "7", "}">>

\* no instructions key
R_no_instructions ==
    <<"{", "\"", "a", "g", "e", "n", "t", "_", "n", "a", "m", "e", "\"",
      ":", "\"", "o", "p", "s", "\"", "}">>

\* no agent_name key
R_no_name ==
    <<"{", "\"", "d", "i", "s", "p", "l", "a", "y", "_", "n", "a", "m",
      "e", "\"", ":", "\"", "O", "p", "s", "\"", "}">>

\* valid JSON that is no object
R_list ==
    <<"[", "\"", "o", "p", "s", "\"", "]">>

\* an agent_name that climbs out of the base directory
R_parent_name ==
    <<"{", "\"", "a", "g", "e", "n", "t", "_", "n", "a", "m", "e", "\"",
      ":", "\"", ".", ".", "/", "o", "p", "s", "\"", "}">>

\* an empty agent_name
R_empty_name ==
    <<"{", "\"", "a", "g", "e", "n", "t", "_", "n", "a", "m", "e", "\"",
      ":", "\"", "\"", "}">>

\* an agent_name with a slash
R_nested_name ==
    <<"{", "\"", "a", "g", "e", "n", "t", "_", "n", "a", "m", "e", "\"",
      ":", "\"", "a", "/", "o", "p", "s", "\"", "}">>

\* an absolute agent_name
R_absolute_name ==
    <<"{", "\"", "a", "g", "e", "n", "t", "_", "n", "a", "m", "e", "\"",
      ":", "\"", "/", "s", "r", "v", "\"", "}">>

\* an agent_name that is no text
R_int_name ==
    <<"{", "\"", "a", "g", "e", "n", "t", "_", "n", "a", "m", "e", "\"",
      ":", "7", "}">>

\* a record with the key the renderer injects
R_generated_at ==
    <<"{", "\"", "a", "g", "e", "n", "t", "_", "n", "a", "m", "e", "\"",
      ":", "\"", "o", "p", "s", "\"", ",", "\"", "g", "e", "n", "e", "r",
      "a", "t", "e", "d", "_", "a", "t", "\"", ":", "1", "}">>

\* no JSON at all
R_not_json ==
    <<"S", "o", "r", "r", "y">>

\* a fenced record
R_fenced ==
    <<" ", Tick, Tick, Tick, "j", "s", "o", "n", "\n", "{", "\"", "a", "g",
      "e", "n", "t", "_", "n", "a", "m", "e", "\"", ":", "\"", "o", "p",
      "s", "\"", "}", "\n", Tick, Tick, Tick, "\n">>

\* fenced text that is no JSON
R_fenced_not_json ==
    <<Tick, Tick, Tick, "j", "s", "o", "n", "\n", "S", "o", "r", "r", "y",
      "\n", Tick, Tick, Tick>>

Responses ==
    {R_plain, R_trailing_space, R_null_instructions, R_int_instructions, R_no_instructions, R_no_name, R_list, R_parent_name,
     R_empty_name, R_nested_name, R_absolute_name, R_int_name, R_generated_at, R_not_json, R_fenced, R_fenced_not_json}

J_record ==
    <<"{", "\"", "a", "g", "e", "n", "t", "_", "n", "a", "m", "e", "\"",
      ":", "\"", "o", "p", "s", "\"", "}">>

J_empty ==
    <<"{", "}">>

J_spaced ==
    <<"{", " ", "\"", "a", "\"", " ", ":", " ", "[", "1", ",", " ", "n",
      "u", "l", "l", "]", " ", "}">>

J_sorry ==
    <<"S", "o", "r", "r", "y">>

J_truncated ==
    <<"{", "\"", "a", "\"", ":">>

J_ticks ==
    <<"{", "}", Tick, Tick, Tick, "{", "}">>

\* The texts a response wraps: three JSON objects, three texts that are not JSON.
ParseBodies == {J_record, J_empty, J_spaced, J_sorry, J_truncated, J_ticks}

U_cite ==
    <<"A", "l", "w", "a", "y", "s", " ", "c", "i", "t", "e", ".">>

U_spaced ==
    <<" ", "c", "i", "t", "e", "\n">>

\* The instructions argument: absent, empty, or a text.
InstructionInputs == {None, PyStr(<<>>), PyStr(U_cite), PyStr(U_spaced)}

OpsName ==
    <<"o", "p", "s">>

NotesName ==
    <<"n", "o", "t", "e", "s", ".", "t", "x", "t">>

OldText ==
    <<"o", "l", "d">>

\* The file systems an invocation may find.
OpsDir == AGENTS_DIR \o <<OpsName>>

Prefixes(pth) == {Take(pth, k) : k \in 0..Len(pth)}

\* Nothing there yet, not even the base directory.
FsFresh == [files |-> EmptyFiles, dirs |-> {<<>>}]

\* The agent's directory is left from earlier, with a file of its own.
FsStale ==
    [files |-> (OpsDir \o <<NotesName>>) :> TextFile(OldText),
     dirs |-> Prefixes(OpsDir)]

\* A regular file has the name the agent's directory needs.
FsBlocked ==
    [files |-> OpsDir :> TextFile(OldText), dirs |-> Prefixes(AGENTS_DIR)]

\* A directory has the name a rendered file needs.
FsDirInTheWay ==
    [files |-> EmptyFiles,
     dirs |-> UNION {Prefixes(OpsDir \o <<Stem(tf)>>) : tf \in TemplateFiles}]

FileSystems == {FsFresh, FsStale, FsBlocked, FsDirInTheWay}

(***************************************************************************)
(* Initial state                                                           *)
(***************************************************************************)
\* run(): prompts is None, or the list of the queued prompts.
NoPrompts == [is_none |-> TRUE, items |-> <<>>]

Queued(items) == [is_none |-> FALSE, items |-> items]

InitProcs ==
    /\ pc = [p \in Procs |-> "idle"]
    /\ caller = [p \in Procs |-> "lib"]
    /\ instructions = [p \in Procs |-> None]
    /\ response = [p \in Procs |-> <<>>]
    /\ core = [p \in Procs |-> <<>>]
    /\ raw_text = [p \in Procs |-> <<>>]
    /\ agent_data = [p \in Procs |-> None]
    /\ agent_name = [p \in Procs |-> None]
    /\ rendered = [p \in Procs |-> EmptyFiles]
    /\ written = [p \in Procs |-> {}]
    /\ agent_dir = [p \in Procs |-> <<>>]
    /\ exc = [p \in Procs |-> NoExc]
    /\ result = [p \in Procs |-> NoResult]
    /\ exit_code = [p \in Procs |-> -1]
    /\ stderr = [p \in Procs |-> <<>>]
    /\ calls = [p \in Procs |-> 0]
    /\ trace = [p \in Procs |-> <<>>]
    /\ wcalls = [p \in Procs |-> 0]

InitFs(systems) ==
    /\ \E fs \in systems :
          /\ files = fs.files
          /\ dirs = fs.dirs
          /\ fs0 = fs
    /\ xbit = {}
    /\ clock = 0
    /\ wlog = <<>>
    /\ finished = <<>>
    /\ snap = EmptyFiles

InitRun ==
    /\ rpc = "idle"
    /\ user_input = None
    /\ prompts = NoPrompts
    /\ prompt = <<>>
    /\ conversation = <<>>
    /\ stdin = <<>>
    /\ sent = <<>>
    /\ reads = 0

Init == InitProcs /\ InitFs(FileSystems) /\ InitRun

(***************************************************************************)
(* create_agent and main                                                   *)
(***************************************************************************)
\* except Exception: every exception create_agent can raise is one.
MainCatchesValueErrorOnly(e) == e.type = "ValueError"

MainCatches(e) == e.type # "none"

\* Where control goes when a step of invocation p raises e.  Neither
\* create_agent nor the functions it calls catch anything but the
\* JSONDecodeError that _call_anthropic converts: the exception reaches
\* the caller, and of the callers only main() has a handler.
AfterRaiseWithRetry(p, e) ==
    IF e.type = "ValueError" /\ calls[p] < 2 THEN "call"
    ELSE IF caller[p] # "cli" THEN "raised"
    ELSE IF MainCatches(e) THEN "except" ELSE "uncaught"

AfterRaise(p, e) ==
    IF caller[p] # "cli" THEN "raised"
    ELSE IF MainCatches(e) THEN "except" ELSE "uncaught"

Step(p, next) ==
    /\ pc' = [pc EXCEPT ![p] = next]
    /\ trace' = [trace EXCEPT ![p] = Append(@, pc[p])]

Raise(p, type, msg) ==
    LET e == [type |-> type, msg |-> msg, step |-> pc[p]]
    IN  /\ exc' = [exc EXCEPT ![p] = e]
        /\ Step(p, AfterRaise(p, e))

\* main() calling create_agent without instructions, or a library caller
\* passing any.
Invoke(p, callers, instrs) ==
    /\ pc[p] = "idle"
    /\ \E c \in callers, u \in instrs :
          /\ c = "cli" => u = None
          /\ caller' = [caller EXCEPT ![p] = c]
          /\ instructions' = [instructions EXCEPT ![p] = u]
    /\ Step(p, "call")
    /\ UNCHANGED <<response, core, raw_text, agent_data, agent_name, rendered,
                   written, agent_dir, exc, result, exit_code, stderr, calls,
                   wcalls>>
    /\ UNCHANGED <<fsVars, runVars>>

\* What the service puts around the text it was asked for: white space and
\* an opening and a closing code fence, each optional.
Wrap(body, w) ==
    w.lead \o w.open \o w.gap1 \o body \o w.gap2 \o w.close \o w.trail

NoWrapper ==
    [lead |-> <<>>, open |-> <<>>, gap1 |-> <<>>, gap2 |-> <<>>,
     close |-> <<>>, trail |-> <<>>]

\* client.messages.create returns the text of the first content block.
CallAnthropic(p, bodies, wrappers) ==
    /\ pc[p] = "call"
    /\ calls' = [calls EXCEPT ![p] = @ + 1]
    /\ \E b \in bodies, w \in wrappers :
          /\ response' = [response EXCEPT ![p] = Wrap(b, w)]
          /\ core' = [core EXCEPT ![p] = b]
    /\ Step(p, "parse")
    /\ UNCHANGED <<caller, instructions, raw_text, agent_data, agent_name,
                   rendered, written, agent_dir, exc, result, exit_code,
                   stderr, wcalls>>
    /\ UNCHANGED <<fsVars, runVars>>

\* client.messages.create raises: a transport or authentication failure.
CallAnthropicFails(p) ==
    /\ pc[p] = "call"
    /\ calls' = [calls EXCEPT ![p] = @ + 1]
    /\ Raise(p, "APIError", <<>>)
    /\ UNCHANGED <<caller, instructions, response, core, raw_text, agent_data,
                   agent_name, rendered, written, agent_dir, result,
                   exit_code, stderr, wcalls>>
    /\ UNCHANGED <<fsVars, runVars>>

\* The text json.loads is given: strip(), then the two re.sub calls.
StripFences(text) == SubTrailingFence(SubLeadingFence(strip(text)))

\* The rest of _call_anthropic: the record, or the ValueError whose message
\* ends with raw_text.
ParseResponse(p) ==
    /\ pc[p] = "parse"
    /\ LET text == StripFences(response[p])
           r == json_loads(text)
       IN  /\ raw_text' = [raw_text EXCEPT ![p] = text]
           /\ IF r.ok
              THEN /\ agent_data' = [agent_data EXCEPT ![p] = r.val]
                   /\ Step(p, "lookup")
                   /\ exc' = exc
              ELSE /\ Raise(p, "ValueError", InvalidJsonHead \o text)
                   /\ agent_data' = agent_data
    /\ UNCHANGED <<caller, instructions, response, core, agent_name,
                   rendered, written, agent_dir, result, exit_code, stderr,
                   calls, wcalls>>
    /\ UNCHANGED <<fsVars, runVars>>

\* agent_name = agent_data["agent_name"], and the test of instructions.
LookupAgentName(p) ==
    /\ pc[p] = "lookup"
    /\ LET d == agent_data[p]
       IN  IF d.t = "dict" /\ DictHas(d, K_agent_name)
           THEN /\ agent_name' = [agent_name EXCEPT
                                    ![p] = DictGet(d, K_agent_name, None)]
                /\ Step(p, IF Truthy(instructions[p])
                           THEN "append" ELSE "render")
                /\ exc' = exc
           ELSE /\ IF d.t = "dict"
                   THEN Raise(p, "KeyError",
                              <<"'">> \o K_agent_name \o <<"'">>)
                   ELSE Raise(p, "TypeError", <<>>)
                /\ agent_name' = agent_name
    /\ UNCHANGED <<caller, instructions, response, core, raw_text, agent_data,
                   rendered, written, agent_dir, result, exit_code, stderr,
                   calls, wcalls>>
    /\ UNCHANGED <<fsVars, runVars>>

\* The text create_agent stores under "instructions".
InstructionsReplaced(existing, user) == user

AppendedInstructions(existing, user) ==
    rstrip(existing) \o InstructionSeparator \o user

\* The body of "if instructions:".
AppendInstructions(p) ==
    /\ pc[p] = "append"
    /\ LET got == DictGet(agent_data[p], K_instructions, PyStr(<<>>))
           existing == IF Truthy(got) THEN got ELSE PyStr(<<>>)
       IN  IF existing.t = "str"
           THEN /\ agent_data' =
                      [agent_data EXCEPT
                         ![p] = PyDict(DictSet(@.v, K_instructions,
                                   PyStr(AppendedInstructions(
                                       existing.v, instructions[p].v))))]
                /\ Step(p, "render")
                /\ exc' = exc
           ELSE /\ Raise(p, "AttributeError", <<>>)
                /\ agent_data' = agent_data
    /\ UNCHANGED <<caller, instructions, response, core, raw_text, agent_name,
                   rendered, written, agent_dir, result, exit_code, stderr,
                   calls, wcalls>>
    /\ UNCHANGED <<fsVars, runVars>>

\* The templates _render_templates has still to render.
RenderTodo(p) == {tf \in TemplateFiles : Stem(tf) \notin DOMAIN rendered[p]}

\* One turn of the loop of _render_templates, in the order glob yields.
\* render(**agent_data, generated_at=...) is a TypeError when the record
\* has a generated_at key of its own.
RenderTemplate(p) ==
    /\ pc[p] = "render"
    /\ \E tf \in RenderTodo(p) :
          IF DictHas(agent_data[p], K_generated_at)
          THEN /\ Raise(p, "TypeError", <<>>)
               /\ UNCHANGED <<rendered, clock>>
          ELSE /\ rendered' =
                     [rendered EXCEPT
                        ![p] = (Stem(tf) :>
                                  RenderedFile(tf, agent_data[p], clock)) @@ @]
               /\ clock' = clock + 1
               /\ Step(p, IF RenderTodo(p) = {tf} THEN "mkdir" ELSE "render")
               /\ exc' = exc
    /\ UNCHANGED <<caller, instructions, response, core, raw_text, agent_data,
                   agent_name, written, agent_dir, result, exit_code, stderr,
                   calls, wcalls>>
    /\ UNCHANGED <<files, dirs, xbit, fs0, wlog, finished, snap>>
    /\ UNCHANGED runVars

\* A template that does not load or render: the engine's error propagates.
RenderTemplateFails(p) ==
    /\ pc[p] = "render"
    /\ Raise(p, "TemplateError", <<>>)
    /\ UNCHANGED <<caller, instructions, response, core, raw_text, agent_data,
                   agent_name, rendered, written, agent_dir, result,
                   exit_code, stderr, calls, wcalls>>
    /\ UNCHANGED <<fsVars, runVars>>

(***************************************************************************)
(* _write_agent_folder and _write_run_script                               *)
(***************************************************************************)
\* agent_dir.mkdir(parents=True, exist_ok=True) raises when the path, or a
\* parent it needs, is a regular file; a directory already there is fine.
MkdirFailsIfPresent(lexical) ==
    \/ \E d \in LexicalParents(lexical) : d \in DOMAIN files
    \/ Resolve(lexical, <<>>) \in dirs

MkdirFails(lexical) == \E d \in LexicalParents(lexical) : d \in DOMAIN files

\* The path of a file of the agent's directory, as the system resolves it.
FilePath(p, name) == Resolve(agent_dir[p] \o <<name>>, <<>>)

\* The step after the last file of the loop over rendered_files.
AfterRendered(p, done) ==
    IF done = DOMAIN rendered[p] THEN "write_data" ELSE "write_files"

\* agent_dir = base / agent_name, and agent_dir.mkdir(...).
MakeAgentDir(p) ==
    /\ pc[p] = "mkdir"
    /\ wcalls' = [wcalls EXCEPT ![p] = @ + 1]
    /\ written' = [written EXCEPT ![p] = {}]
    /\ IF agent_name[p].t # "str"
       THEN /\ Raise(p, "TypeError", <<>>)
            /\ UNCHANGED <<agent_dir, dirs>>
       ELSE LET lexical == PathJoin(AGENTS_DIR, agent_name[p].v)
            IN  /\ agent_dir' = [agent_dir EXCEPT ![p] = lexical]
                /\ IF MkdirFails(lexical)
                   THEN /\ Raise(p, IF Resolve(lexical, <<>>) \in DOMAIN files
                                     THEN "FileExistsError"
                                     ELSE "NotADirectoryError", <<>>)
                        /\ dirs' = dirs
                   ELSE /\ dirs' = dirs \cup LexicalParents(lexical)
                        /\ Step(p, AfterRendered(p, {}))
                        /\ exc' = exc
    /\ UNCHANGED <<caller, instructions, response, core, raw_text, agent_data,
                   agent_name, rendered, result, exit_code, stderr, calls>>
    /\ UNCHANGED <<files, xbit, clock, fs0, wlog, finished, snap>>
    /\ UNCHANGED runVars

\* (agent_dir / name).write_text(content) by invocation p, then the step next.
WriteFile(p, name, content, next) ==
    LET pth == FilePath(p, name)
    IN  IF pth \in dirs
        THEN /\ Raise(p, "IsADirectoryError", <<>>)
             /\ UNCHANGED <<files, wlog>>
        ELSE /\ files' = WriteText(files, pth, content)
             /\ wlog' = Append(wlog, <<p, pth>>)
             /\ Step(p, next)
             /\ exc' = exc

\* One turn of the loop over rendered_files.items().
WriteRenderedFile(p) ==
    /\ pc[p] = "write_files"
    /\ \E name \in (DOMAIN rendered[p]) \ written[p] :
          /\ WriteFile(p, name, rendered[p][name],
                       AfterRendered(p, written[p] \cup {name}))
          /\ written' = [written EXCEPT ![p] = @ \cup {name}]
    /\ UNCHANGED <<caller, instructions, response, core, raw_text, agent_data,
                   agent_name, rendered, agent_dir, result, exit_code, stderr,
                   calls, wcalls>>
    /\ UNCHANGED <<dirs, xbit, clock, fs0, finished, snap>>
    /\ UNCHANGED runVars

\* generation_data.json: json.dumps(agent_data, indent=2, ensure_ascii=False).
WriteGenerationData(p) ==
    /\ pc[p] = "write_data"
    /\ WriteFile(p, GenerationDataName, TextFile(json_dumps(agent_data[p])),
                 "write_script")
    /\ UNCHANGED <<caller, instructions, response, core, raw_text, agent_data,
                   agent_name, rendered, written, agent_dir, result,
                   exit_code, stderr, calls, wcalls>>
    /\ UNCHANGED <<dirs, xbit, clock, fs0, finished, snap>>
    /\ UNCHANGED runVars

\* _write_run_script: the script's text, which names the agent, and chmod
\* 0o755; then _write_agent_folder returns agent_dir.
WriteRunScript(p) ==
    /\ pc[p] = "write_script"
    /\ WriteFile(p, RunScriptName, ScriptFile(agent_name[p].v),
                 IF caller[p] = "writer" THEN "writer_returned" ELSE "return")
    /\ IF FilePath(p, RunScriptName) \in dirs
       THEN UNCHANGED <<xbit, finished>>
       ELSE /\ xbit' = xbit \cup {FilePath(p, RunScriptName)}
            /\ finished' = IF caller[p] = "writer"
                           THEN Append(finished, p) ELSE finished
    /\ UNCHANGED <<caller, instructions, response, core, raw_text, agent_data,
                   agent_name, rendered, written, agent_dir, result,
                   exit_code, stderr, calls, wcalls>>
    /\ UNCHANGED <<dirs, clock, fs0, snap>>
    /\ UNCHANGED runVars

\* The summary create_agent returns.  files_written is the sorted list of
\* the names in agent_dir, kept here as the set of those names.
ReturnSummary(p) ==
    /\ pc[p] = "return"
    /\ result' =
          [result EXCEPT
             ![p] = [agent_name |-> agent_name[p],
                     display_name |-> DictGet(agent_data[p], K_display_name,
                                              agent_name[p]),
                     agent_dir |-> agent_dir[p],
                     files_written |->
                         Children(files, dirs, Resolve(agent_dir[p], <<>>)),
                     data |-> agent_data[p]]]
    /\ finished' = Append(finished, p)
    /\ Step(p, IF caller[p] = "cli" THEN "print" ELSE "done")
    /\ UNCHANGED <<caller, instructions, response, core, raw_text, agent_data,
                   agent_name, rendered, written, agent_dir, exc, exit_code,
                   stderr, calls, wcalls>>
    /\ UNCHANGED <<files, dirs, xbit, clock, fs0, wlog, snap>>
    /\ UNCHANGED runVars

\* main() after create_agent returned: the success lines go to standard
\* output, main returns and the process exits with status 0.
MainPrintsResult(p) ==
    /\ pc[p] = "print"
    /\ exit_code' = [exit_code EXCEPT ![p] = 0]
    /\ Step(p, "exited")
    /\ UNCHANGED <<caller, instructions, response, core, raw_text, agent_data,
                   agent_name, rendered, written, agent_dir, exc, result,
                   stderr, calls, wcalls>>
    /\ UNCHANGED <<fsVars, runVars>>

\* The except clause of main(): one print to stderr, then sys.exit(1).
MainExcept(p) ==
    /\ pc[p] = "except"
    /\ stderr' = [stderr EXCEPT ![p] = Append(@, ErrorHead \o exc[p].msg)]
    /\ exit_code' = [exit_code EXCEPT ![p] = 1]
    /\ Step(p, "exited")
    /\ UNCHANGED <<caller, instructions, response, core, raw_text, agent_data,
                   agent_name, rendered, written, agent_dir, exc, result,
                   calls, wcalls>>
    /\ UNCHANGED <<fsVars, runVars>>

\* The steps of one invocation of the pipeline.
Pipeline(p, bodies, wrappers) ==
    \/ CallAnthropic(p, bodies, wrappers)
    \/ CallAnthropicFails(p)
    \/ ParseResponse(p)
    \/ LookupAgentName(p)
    \/ AppendInstructions(p)
    \/ RenderTemplate(p)
    \/ RenderTemplateFails(p)
    \/ MakeAgentDir(p)
    \/ WriteRenderedFile(p)
    \/ WriteGenerationData(p)
    \/ WriteRunScript(p)
    \/ ReturnSummary(p)
    \/ MainPrintsResult(p)
    \/ MainExcept(p)

Next ==
    \/ Invoke(1, {"cli", "lib"}, InstructionInputs)
    \/ Pipeline(1, Responses, {NoWrapper})

Spec == Init /\ [][Next]_vars

(***************************************************************************)
(* _call_anthropic on its own, over responses that wrap a text in white    *)
(* space and fences.                                                       *)
(***************************************************************************)
\* The longest run of white space before and after a response.
MaxWs == 1

WsChars == {" ", "\n"}

WsRuns == UNION {[1..k -> WsChars] : k \in 0..MaxWs}

\* The white space between a fence and the text it encloses.
Gaps == {<<>>, <<"\n">>, <<" ", "\f">>}

Wrappers ==
    [lead : WsRuns, open : {<<>>, Fence, Fence \o JsonTag}, gap1 : Gaps,
     gap2 : Gaps, close : {<<>>, Fence}, trail : WsRuns]

InitParse == InitProcs /\ InitFs({FsFresh}) /\ InitRun

NextParse ==
    \/ Invoke(1, {"lib"}, {None})
    \/ CallAnthropic(1, ParseBodies, Wrappers)
    \/ ParseResponse(1)

SpecParse == InitParse /\ [][NextParse]_vars

(***************************************************************************)
(* _write_agent_folder called directly: twice in sequence by one caller,   *)
(* and by two callers side by side.                                        *)
(***************************************************************************)
\* Calls of the folder writer one caller makes in sequence.
MaxWriterCalls == 2

TemplateOf(stem) == CHOOSE tf \in TemplateFiles : Stem(tf) = stem

\* What _render_templates returns for a record when every reading of the
\* clock gives the same instant.
RenderAll(data, at) ==
    [stem \in {Stem(tf) : tf \in TemplateFiles} |->
        RenderedFile(TemplateOf(stem), data, at)]

WriterRecords == {json_loads(R_plain).val, json_loads(R_no_instructions).val}

WriterArgs ==
    {[agent_name |-> DictGet(d, K_agent_name, None), agent_data |-> d,
      rendered |-> RenderAll(d, at)] : d \in WriterRecords, at \in {0, 1}}

\* The arguments of each of the two racing callers: the same identifier,
\* different content.
RaceArgs(p) ==
    LET d == json_loads(IF p = 1 THEN R_plain ELSE R_no_instructions).val
    IN  {[agent_name |-> DictGet(d, K_agent_name, None), agent_data |-> d,
          rendered |-> RenderAll(d, p)]}

\* _write_agent_folder(agent_name, rendered_files, agent_data, output_dir)
CallWriter(p, args) ==
    /\ pc[p] = "idle"
    /\ \E a \in args :
          /\ agent_name' = [agent_name EXCEPT ![p] = a.agent_name]
          /\ agent_data' = [agent_data EXCEPT ![p] = a.agent_data]
          /\ rendered' = [rendered EXCEPT ![p] = a.rendered]
    /\ caller' = [caller EXCEPT ![p] = "writer"]
    /\ Step(p, "mkdir")
    /\ UNCHANGED <<instructions, response, core, raw_text, written, agent_dir,
                   exc, result, exit_code, stderr, calls, wcalls>>
    /\ UNCHANGED <<fsVars, runVars>>

\* The same call again, with the same arguments.
CallWriterAgain(p) ==
    /\ pc[p] = "writer_returned"
    /\ wcalls[p] < MaxWriterCalls
    /\ snap' = files
    /\ Step(p, "mkdir")
    /\ UNCHANGED <<caller, instructions, response, core, raw_text, agent_data,
                   agent_name, rendered, written, agent_dir, exc, result,
                   exit_code, stderr, calls, wcalls>>
    /\ UNCHANGED <<files, dirs, xbit, clock, fs0, wlog, finished>>
    /\ UNCHANGED runVars

Writer(p) ==
    \/ MakeAgentDir(p)
    \/ WriteRenderedFile(p)
    \/ WriteGenerationData(p)
    \/ WriteRunScript(p)

NextWriter ==
    \/ CallWriter(1, WriterArgs)
    \/ CallWriterAgain(1)
    \/ Writer(1)

SpecWriter == Init /\ [][NextWriter]_vars

\* Two invocations of _write_agent_folder on one agent directory. Their
\* steps interleave freely; each mkdir and each write_text is one step, so
\* an interleaving inside a single write_text is not part of this model.
InitRace == InitProcs /\ InitFs({FsFresh, FsStale}) /\ InitRun

NextRace == \E p \in Procs : CallWriter(p, RaceArgs(p)) \/ Writer(p)

SpecRace == InitRace /\ [][NextRace]_vars

(***************************************************************************)
(* run() of the generated run_agent.py                                     *)
(***************************************************************************)
\* The lines standard input may hold.
MaxStdin == 2

T_hi == <<"h", "i">>

T_quit == <<"q", "u", "i", "t">>

T_QUIT == <<"Q", "U", "I", "T">>

T_exit == <<"e", "x", "i", "t">>

T_q == <<"q">>

T_Q_spaced == <<" ", "Q", " ">>

T_quit_spaced == <<" ", "q", "u", "i", "t">>

\* sys.argv[1], when there is one.
Arguments == {<<>>, T_hi, T_quit, T_QUIT, T_quit_spaced}

Lines == {<<>>, T_hi, T_exit, T_Q_spaced}

StdinContents == UNION {[1..k -> Lines] : k \in 0..MaxStdin}

\* What the completion service answers.
ReplyText == <<"o", "k">>

\* str.lower() on the letters used.
LowerChar(c) ==
    CASE c = "Q" -> "q"
      [] c = "U" -> "u"
      [] c = "I" -> "i"
      [] c = "T" -> "t"
      [] OTHER -> c

lower(cs) == [i \in 1..Len(cs) |-> LowerChar(cs[i])]

QuitTokens == {T_quit, T_exit, T_q}

Turn(role, content) == [role |-> role, content |-> content]

\* "if prompts is not None and not prompts": the single-shot break.
SingleShotWhileQueued(ps) == ~ps.is_none /\ ps.items # <<>>

SingleShotDone(ps) == ~ps.is_none /\ ps.items = <<>>

\* run(sys.argv[1] if len(sys.argv) > 1 else None), up to the loop.
RunStart ==
    /\ rpc = "idle"
    /\ \E a \in {None} \cup {PyStr(t) : t \in Arguments} :
          /\ user_input' = a
          /\ prompts' = IF Truthy(a) THEN Queued(<<a.v>>) ELSE NoPrompts
    /\ \E lines \in StdinContents : stdin' = lines
    /\ rpc' = "loop"
    /\ UNCHANGED <<prompt, conversation, sent, reads>>
    /\ UNCHANGED <<procVars, fsVars>>

\* "if prompts: prompt = prompts.pop(0)"
TakeQueuedPrompt ==
    /\ rpc = "loop"
    /\ ~prompts.is_none /\ prompts.items # <<>>
    /\ prompt' = Head(prompts.items)
    /\ prompts' = Queued(Tail(prompts.items))
    /\ rpc' = "check"
    /\ UNCHANGED <<user_input, conversation, stdin, sent, reads>>
    /\ UNCHANGED <<procVars, fsVars>>

\* "else: prompt = input(...).strip()", with EOFError at the end of input.
ReadInput ==
    /\ rpc = "loop"
    /\ prompts.is_none \/ prompts.items = <<>>
    /\ reads' = reads + 1
    /\ IF stdin = <<>>
       THEN /\ rpc' = "done"
            /\ UNCHANGED <<prompt, stdin>>
       ELSE /\ prompt' = strip(Head(stdin))
            /\ stdin' = Tail(stdin)
            /\ rpc' = "check"
    /\ UNCHANGED <<user_input, prompts, conversation, sent>>
    /\ UNCHANGED <<procVars, fsVars>>

\* KeyboardInterrupt while input() waits.
InterruptInput ==
    /\ rpc = "loop"
    /\ prompts.is_none \/ prompts.items = <<>>
    /\ reads' = reads + 1
    /\ rpc' = "done"
    /\ UNCHANGED <<user_input, prompts, prompt, conversation, stdin, sent>>
    /\ UNCHANGED <<procVars, fsVars>>

\* The quit test, and the user turn appended to the conversation.
CheckQuit ==
    /\ rpc = "check"
    /\ IF lower(prompt) \in QuitTokens
       THEN /\ rpc' = "done"
            /\ conversation' = conversation
       ELSE /\ conversation' = Append(conversation, Turn("user", prompt))
            /\ rpc' = "send"
    /\ UNCHANGED <<user_input, prompts, prompt, stdin, sent, reads>>
    /\ UNCHANGED <<procVars, fsVars>>

\* client.messages.create answers: the reply is appended, and the loop
\* ends in single-shot mode.
SendPrompt ==
    /\ rpc = "send"
    /\ sent' = Append(sent, prompt)
    /\ conversation' = Append(conversation, Turn("assistant", ReplyText))
    /\ rpc' = IF SingleShotDone(prompts) THEN "done" ELSE "loop"
    /\ UNCHANGED <<user_input, prompts, prompt, stdin, reads>>
    /\ UNCHANGED <<procVars, fsVars>>

\* client.messages.create raises: nothing catches it and the script dies.
SendPromptFails ==
    /\ rpc = "send"
    /\ sent' = Append(sent, prompt)
    /\ rpc' = "crashed"
    /\ UNCHANGED <<user_input, prompts, prompt, conversation, stdin, reads>>
    /\ UNCHANGED <<procVars, fsVars>>

NextRun ==
    \/ RunStart
    \/ TakeQueuedPrompt
    \/ ReadInput
    \/ InterruptInput
    \/ CheckQuit
    \/ SendPrompt
    \/ SendPromptFails

SpecRun == InitParse /\ [][NextRun]_vars

(***************************************************************************)
(* Properties                                                              *)
(***************************************************************************)
IsJsonObject(text) == json_loads(text).ok /\ json_loads(text).val.t = "dict"

\* What the parsing step of _call_anthropic makes of a text.
ParseStep(text) == json_loads(StripFences(text))

\* _call_anthropic is over: it returned the record or raised.
Parsed(p) == pc[p] \in {"lookup", "raised"}

\* C1: for every valid JSON object text J, the parsing step returns for J
\* wrapped in white space and an optional opening fence (with or without
\* the json tag) and an optional closing fence the record it returns for
\* J alone.
C1_FenceInvariance ==
    \A p \in Procs :
        (Parsed(p) /\ IsJsonObject(core[p])) =>
            /\ pc[p] = "lookup"
            /\ ParseStep(core[p]).ok
            /\ agent_data[p] = ParseStep(core[p]).val

\* C1 witness: a record recovered from a response with an opening json
\* fence, a closing fence and white space around both.
C1_Witness ==
    /\ pc[1] = "lookup"
    /\ IsJsonObject(core[1])
    /\ response[1] # strip(response[1])
    /\ StartsWith(strip(response[1]), Fence \o JsonTag \o <<"\n">>)
    /\ EndsWith(strip(response[1]), <<" ", "\f">> \o Fence)
    /\ agent_data[1] = json_loads(J_record).val

\* C2: when the response is not valid JSON after fence-stripping, the
\* error message contains the response exactly as the service returned it.
C2_ErrorCarriesRawResponse ==
    \A p \in Procs :
        (pc[p] = "raised" /\ exc[p].type = "ValueError") =>
            Contains(exc[p].msg, response[p])

\* The instruction text the service generated, and the one create_agent
\* ends with.
Generated(p) ==
    DictGet(ParseStep(response[p]).val, K_instructions, None)

Final(p) == DictGet(agent_data[p], K_instructions, None)

\* The branch "if instructions:" was taken and has run.
AppendDone(p) ==
    /\ "append" \in {trace[p][i] : i \in 1..Len(trace[p])}
    /\ exc[p] = NoExc
    /\ Generated(p).t = "str"

RuleLine == <<"-", "-", "-">>

\* C3 as stated: the final instruction text ends with the user's
\* instructions and holds all of the generated text, then a separator,
\* before them.
C3_AppendKeepsGenerated ==
    \A p \in Procs :
        AppendDone(p) =>
            LET f == Final(p).v
                g == Generated(p).v
                u == instructions[p].v
            IN  /\ EndsWith(f, u)
                /\ \E i \in 1..(Len(f) + 1), j \in 1..(Len(f) + 1) :
                      /\ StartsWithAt(f, i, g)
                      /\ j >= i + Len(g)
                      /\ StartsWithAt(f, j, RuleLine)
                      /\ j + Len(RuleLine) + Len(u) <= Len(f) + 1

\* The instruction text of generation_data.json, read back.
Persisted(p) ==
    DictGet(json_loads(files[FilePath(p, GenerationDataName)].text).val,
            K_instructions, None)

\* C3 amended: the final instruction text is the generated text without
\* its trailing white space, then the separator, then the user's
\* instructions; the returned record and generation_data.json hold it.
C3_AppendsToStrippedText ==
    \A p \in Procs :
        AppendDone(p) =>
            LET expected == PyStr(rstrip(Generated(p).v)
                                  \o InstructionSeparator
                                  \o instructions[p].v)
            IN  /\ Final(p) = expected
                /\ pc[p] = "done" =>
                      /\ DictGet(result[p].data, K_instructions, None)
                            = expected
                      /\ Persisted(p) = expected

\* C3 witness: a finished run whose generated text ended in white space.
C3_Witness ==
    /\ pc[1] = "done"
    /\ AppendDone(1)
    /\ Generated(1).v # rstrip(Generated(1).v)
    /\ instructions[1] = PyStr(U_cite)
    /\ Persisted(1) = Final(1)

\* The names _write_agent_folder writes.
ExpectedNames ==
    {Stem(tf) : tf \in TemplateFiles} \cup {GenerationDataName, RunScriptName}

\* C4: after a successful run of the folder writer the agent directory
\* holds exactly one file per template, generation_data.json and
\* run_agent.py.
C4_ExactlyTheGeneratedFiles ==
    \A p \in Procs :
        pc[p] = "writer_returned" =>
            Children(files, dirs, Resolve(agent_dir[p], <<>>)) = ExpectedNames

\* C5: every file the pipeline writes lands in a directory that is a
\* direct child of the base directory.
C5_WritesUnderDirectChild ==
    \A i \in 1..Len(wlog) :
        /\ Len(wlog[i][2]) = Len(AGENTS_DIR) + 2
        /\ IsPrefix(AGENTS_DIR, wlog[i][2])

\* What invocation q writes under a name.
ContentBy(q, name) ==
    IF name = GenerationDataName THEN TextFile(json_dumps(agent_data[q]))
    ELSE IF name = RunScriptName THEN ScriptFile(agent_name[q].v)
    ELSE rendered[q][name]

\* The invocation whose write_text of a path came last.
LastWriter(pth) ==
    wlog[Max({i \in 1..Len(wlog) : wlog[i][2] = pth})][1]

BothReturned == \A p \in Procs : pc[p] = "writer_returned"

\* C6 as stated: after two racing invocations every file of the agent
\* directory holds the content of the invocation that finished last.
C6_LastFinisherOwnsEveryFile ==
    BothReturned =>
        \A name \in ExpectedNames :
            files[FilePath(1, name)]
                = ContentBy(finished[Len(finished)], name)

\* C6 amended: neither racing invocation fails or notices the other, and
\* after both each file holds the content of the invocation that wrote
\* that file last; the files need not come from one invocation.
C6_LastWritePerFile ==
    /\ \A p \in Procs : exc[p] = NoExc /\ pc[p] # "raised"
    /\ BothReturned =>
          \A name \in ExpectedNames :
              /\ FilePath(1, name) = FilePath(2, name)
              /\ files[FilePath(1, name)]
                    = ContentBy(LastWriter(FilePath(1, name)), name)

\* C6 witness: both returned, one rendered file is the first invocation's
\* and generation_data.json the second's, which did not finish last.
C6_Witness ==
    /\ BothReturned
    /\ finished[Len(finished)] = 1
    /\ \E name \in DOMAIN rendered[1] :
          files[FilePath(1, name)] = rendered[1][name]
    /\ files[FilePath(1, GenerationDataName)]
          = ContentBy(2, GenerationDataName)
    /\ ContentBy(2, GenerationDataName) # ContentBy(1, GenerationDataName)

\* C7: a second call of the folder writer with the same arguments succeeds
\* like the first and leaves every file with the content it had.
C7_WriterIdempotent ==
    \A p \in Procs :
        wcalls[p] >= 2 =>
            /\ pc[p] # "raised"
            /\ exc[p] = NoExc
            /\ pc[p] = "writer_returned" =>
                  /\ files = snap
                  /\ \A name \in ExpectedNames :
                        files[FilePath(p, name)] = ContentBy(p, name)

\* C7 witness: the second call has returned, over a directory that held
\* an older file before the first.
C7_Witness ==
    /\ wcalls[1] = 2
    /\ pc[1] = "writer_returned"
    /\ fs0 = FsStale
    /\ Len(wlog) = 2 * Cardinality(ExpectedNames)

\* run() was started with a non-empty prompt that is no quit token.
SingleShot == Truthy(user_input) /\ lower(user_input.v) \notin QuitTokens

\* A single-shot run: no interactive input is read, the one prompt is the
\* only one sent, and the run ends with the user turn and then the reply in
\* the conversation.
SingleShotRun ==
    /\ reads = 0
    /\ Len(sent) <= 1
    /\ rpc \in {"loop", "check"} => conversation = <<>> /\ sent = <<>>
    /\ rpc \in {"send", "crashed"} =>
          conversation = <<Turn("user", user_input.v)>>
    /\ rpc \in {"done", "crashed"} => sent = <<user_input.v>>
    /\ rpc = "done" =>
          /\ conversation = <<Turn("user", user_input.v),
                              Turn("assistant", ReplyText)>>
          /\ prompts = Queued(<<>>)

\* C8 as stated: started with any initial prompt that is no quit token,
\* run() never reads interactive input, sends that one prompt only, and
\* ends with the user turn and then the reply in the conversation.
C8_AnyPromptSingleShot ==
    (user_input.t = "str" /\ lower(user_input.v) \notin QuitTokens) =>
        SingleShotRun

\* C8 amended: started with a non-empty initial prompt that is no quit
\* token, run() never reads interactive input, sends that one prompt only,
\* and ends with the user turn and then the reply in the conversation.
C8_SingleShot == SingleShot => SingleShotRun

\* C8 witness: the single-shot run ended with lines still waiting on
\* standard input, and its prompt was not stripped.
C8_Witness ==
    /\ rpc = "done"
    /\ user_input = PyStr(T_quit_spaced)
    /\ Len(stdin) = MaxStdin
    /\ Len(conversation) = 2

Took(p, step) == \E i \in 1..Len(trace[p]) : trace[p][i] = step

\* C9: main() exits with status 0 exactly when create_agent returned, and
\* with status 1 after one line on stderr when it raised; no exception
\* leaves main() uncaught.
C9_CliExitCodes ==
    \A p \in Procs :
        caller[p] = "cli" =>
            /\ pc[p] # "uncaught"
            /\ pc[p] # "raised"
            /\ exc[p] # NoExc => pc[p] \in {"except", "exited"}
            /\ pc[p] # "exited" => exit_code[p] = -1 /\ stderr[p] = <<>>
            /\ pc[p] = "exited" =>
                  /\ exit_code[p] \in {0, 1}
                  /\ exit_code[p] = 0 <=> Took(p, "return")
                  /\ exit_code[p] = 0 <=> exc[p] = NoExc
                  /\ exit_code[p] = 0 => stderr[p] = <<>>
                  /\ exit_code[p] = 1 =>
                        stderr[p] = <<ErrorHead \o exc[p].msg>>

\* C9 witness: the CLI exited with status 1 on a record without agent_name.
C9_Witness ==
    /\ caller[1] = "cli"
    /\ pc[1] = "exited"
    /\ exit_code[1] = 1
    /\ exc[1].type = "KeyError"
    /\ Len(stderr[1]) = 1

\* The place of a step in create_agent.
Rank(step) ==
    CASE step = "idle" -> 0
      [] step = "call" -> 1
      [] step = "parse" -> 2
      [] step = "lookup" -> 3
      [] step = "append" -> 4
      [] step = "render" -> 5
      [] step = "mkdir" -> 6
      [] step = "write_files" -> 7
      [] step = "write_data" -> 8
      [] step = "write_script" -> 9
      [] step = "return" -> 10
      [] OTHER -> 11

\* C10: create_agent takes its steps in the order call, parse, lookup,
\* append (when instructions are given), render, write, with one
\* completion call and no retry; an exception in a step ends the
\* invocation, and one raised before the write leaves the file system as
\* it was.
C10_PipelineOrder ==
    \A p \in Procs :
        /\ calls[p] <= 1
        /\ calls[p] = 1 <=> Took(p, "call")
        /\ \A i \in 1..Len(trace[p]), j \in 1..Len(trace[p]) :
              i < j =>
                 \/ Rank(trace[p][i]) < Rank(trace[p][j])
                 \/ /\ trace[p][i] = trace[p][j]
                    /\ trace[p][i] \in {"render", "write_files"}
        /\ \A step \in {"parse", "lookup", "render", "mkdir"} :
              (Took(p, step) \/ pc[p] = step) =>
                 \A before \in {"call", "parse", "lookup", "render"} :
                    Rank(before) < Rank(step) => Took(p, before)
        /\ (Took(p, "append") \/ pc[p] = "append")
              <=> /\ Took(p, "lookup")
                  /\ Truthy(instructions[p])
                  /\ exc[p].step # "lookup"
        /\ pc[p] = "mkdir" =>
              DOMAIN rendered[p] = {Stem(tf) : tf \in TemplateFiles}
        /\ exc[p] # NoExc =>
              /\ pc[p] \in {"raised", "except", "exited"}
              /\ trace[p][Len(trace[p]) - (IF pc[p] = "exited" THEN 1 ELSE 0)]
                    = exc[p].step
        /\ (/\ pc[p] # "idle"
            /\ Rank(IF exc[p] = NoExc THEN pc[p] ELSE exc[p].step)
                  <= Rank("render"))
              => /\ files = fs0.files
                 /\ dirs = fs0.dirs
                 /\ wlog = <<>>

\* C10 witness: rendering failed after the completion call, the parse and
\* the append, over a file system that held the agent's directory.
C10_Witness ==
    /\ exc[1].step = "render"
    /\ exc[1].type = "TemplateError"
    /\ pc[1] = "raised"
    /\ Took(1, "append")
    /\ Cardinality(DOMAIN rendered[1]) = 1
    /\ fs0 = FsStale
    /\ files = fs0.files

====
